---- MODULE Spec2Model ----
(***************************************************************************)
(* Model of scripts/extract_affiliation_fields_sg.py: load a JSON          *)
(* document, normalize it to a list, filter and project the records,       *)
(* write JSON and/or CSV, print a summary.                                 *)
(*                                                                         *)
(* A JSON value is [t |-> tag, v |-> payload].  Strings are sequences of   *)
(* one-character strings, numbers are kept as their decimal digits,        *)
(* booleans as <<"true">> / <<"false">>, null has the empty payload, a     *)
(* list holds a sequence of values and a dict a function from key names    *)
(* to values.                                                              *)
(***************************************************************************)
EXTENDS Integers, Sequences, FiniteSets, TLC

VARIABLES pc, args, data, data_list, extracted, origin, json_file, csv_file,
          stdout, stderr, exit_code, value, result, single

vars == <<pc, args, data, data_list, extracted, origin, json_file, csv_file,
          stdout, stderr, exit_code, value, result, single>>

\* ------------------------------------------------------------------ bounds
MaxItems == 2

MaxStrLen == 5

\* ------------------------------------------------------------- JSON values
None == [t |-> "null", v |-> <<>>]

Str(s) == [t |-> "str", v |-> s]

Num(s) == [t |-> "num", v |-> s]

Bool(b) == [t |-> "bool", v |-> IF b THEN <<"true">> ELSE <<"false">>]

List(s) == [t |-> "list", v |-> s]

Dict(f) == [t |-> "dict", v |-> f]

\* Python ==, restricted to the value shapes of the model
PyEq(a, b) == a.t = b.t /\ a.v = b.v

\* dict.get(key): the value, or None when the key is absent
Get(obj, k) == IF k \in DOMAIN obj.v THEN obj.v[k] ELSE None

\* ---------------------------------------------------------- str.strip/lower
Whitespace == {" ", "\t", "\n"}

RECURSIVE lstrip(_)
lstrip(s) == IF s # <<>> /\ Head(s) \in Whitespace THEN lstrip(Tail(s)) ELSE s

RECURSIVE rstrip(_)
rstrip(s) == IF s # <<>> /\ s[Len(s)] \in Whitespace
             THEN rstrip(SubSeq(s, 1, Len(s) - 1)) ELSE s

strip(s) == rstrip(lstrip(s))

LowerChar(c) == CASE c = "N" -> "n" [] c = "U" -> "u" [] c = "L" -> "l"
                  [] c = "S" -> "s" [] c = "G" -> "g" [] c = "M" -> "m"
                  [] c = "A" -> "a" [] c = "B" -> "b" [] c = "X" -> "x"
                  [] OTHER -> c

lower(s) == [i \in 1..Len(s) |-> LowerChar(s[i])]

NullWords == {<<>>, <<"n", "u", "l", "l">>}

is_nonnull_nostrip(val) == val.t # "null" /\ ~(val.t = "str" /\ lower(val.v) \in NullWords)

is_nonnull(val) == val.t # "null" /\ ~(val.t = "str" /\ lower(strip(val.v)) \in NullWords)

\* ------------------------------------------------------------------ extract
SG == <<"S", "G">>

FIELDS == <<"base_mpd", "merchantName", "merchant_slug", "trackingLink">>

country_ok_loose(obj) == LET c == Get(obj, "country_filter")
                         IN  c.t = "str" /\ lower(strip(c.v)) = <<"s", "g">>

\* line 41: obj.get("country_filter") != "SG" is false
country_ok(obj) == PyEq(Get(obj, "country_filter"), Str(SG))

project_keep_all(obj) == [k \in DOMAIN obj.v \cup {FIELDS[i] : i \in 1..4} |-> Get(obj, k)]

\* lines 45-50: the appended dict
project(obj) == [k \in {FIELDS[i] : i \in 1..4} |-> Get(obj, k)]

\* lines 40-50: the body of the try block for one element
try_body(obj) ==
    IF obj.t # "dict" THEN [kind |-> "raise", rec |-> <<>>]
    ELSE IF ~country_ok(obj) THEN [kind |-> "continue", rec |-> <<>>]
    ELSE IF ~is_nonnull(Get(obj, "base_mpd")) THEN [kind |-> "continue", rec |-> <<>>]
    ELSE [kind |-> "append", rec |-> project(obj)]

no_handler(r) == r

\* lines 51-53: except Exception: continue
except_continue(r) == IF r.kind = "raise" THEN [kind |-> "continue", rec |-> <<>>] ELSE r

append_front(out, x) == <<x>> \o out

\* line 45: out.append
append(out, x) == out \o <<x>>

\* lines 37-54: the loop from element i on; origin records, for each output
\* record, the index of the element it was built from
RECURSIVE extract_from(_, _, _, _)
extract_from(items, i, out, org) ==
    IF i > Len(items) THEN [raised |-> FALSE, out |-> out, origin |-> org]
    ELSE LET r == except_continue(try_body(items[i]))
         IN  CASE r.kind = "raise" -> [raised |-> TRUE, out |-> out, origin |-> org]
               [] r.kind = "continue" -> extract_from(items, i + 1, out, org)
               [] OTHER -> extract_from(items, i + 1, append(out, r.rec), append(org, i))

extract(items) == extract_from(items, 1, <<>>, <<>>)

\* ---------------------------------------------------------- normalization
KEYS_swapped == <<"items", "data", "merchants", "results">>

\* line 74
KEYS == <<"data", "items", "merchants", "results">>

\* line 75: k in data and isinstance(data[k], list)
key_hit(d, k) == k \in DOMAIN d.v /\ d.v[k].t = "list"

\* lines 74-80: for k in (...): ... break / else: data_list = [data]
RECURSIVE find_list(_, _)
find_list(d, i) ==
    IF i > Len(KEYS) THEN <<d>>
    ELSE IF key_hit(d, KEYS[i]) THEN d.v[KEYS[i]].v
    ELSE find_list(d, i + 1)

normalize_wrap_scalar(d) ==
    CASE d.t = "dict" -> [ok |-> TRUE, list |-> find_list(d, 1)]
      [] d.t = "list" -> [ok |-> TRUE, list |-> d.v]
      [] OTHER -> [ok |-> TRUE, list |-> <<d>>]

\* lines 70-84
normalize(d) ==
    CASE d.t = "dict" -> [ok |-> TRUE, list |-> find_list(d, 1)]
      [] d.t = "list" -> [ok |-> TRUE, list |-> d.v]
      [] OTHER -> [ok |-> FALSE, list |-> <<>>]

\* ------------------------------------------------------------ serialization
Q == "\""

BS == "\\"

RECURSIVE json_escape(_)
json_escape(s) ==
    IF s = <<>> THEN <<>>
    ELSE LET c == Head(s)
         IN  (CASE c = Q -> <<BS, Q>>
                [] c = BS -> <<BS, BS>>
                [] c = "\n" -> <<BS, "n">>
                [] c = "\t" -> <<BS, "t">>
                [] OTHER -> <<c>>) \o json_escape(Tail(s))

\* json.dump of one scalar value: the literal written to the file
json_literal(val) ==
    CASE val.t = "null" -> <<"n", "u", "l", "l">>
      [] val.t = "bool" -> IF val.v = <<"true">> THEN <<"t", "r", "u", "e">>
                           ELSE <<"f", "a", "l", "s", "e">>
      [] val.t = "num" -> val.v
      [] OTHER -> <<Q>> \o json_escape(val.v) \o <<Q>>

\* json.dump of one extracted record: its members in insertion order
json_object(rec) == [i \in 1..Len(FIELDS) |-> [k |-> FIELDS[i], lit |-> json_literal(rec[FIELDS[i]])]]

\* lines 90-93: indent=2 when --pretty, no indent otherwise
json_indent(a) == IF a.pretty THEN 2 ELSE -1

\* Python str() of a scalar
str(val) ==
    CASE val.t = "null" -> <<"N", "o", "n", "e">>
      [] val.t = "bool" -> IF val.v = <<"true">> THEN <<"T", "r", "u", "e">>
                           ELSE <<"F", "a", "l", "s", "e">>
      [] OTHER -> val.v

csv_field_str_none(val) == str(val)

csv_field_json_bool(val) == IF val.t \in {"null", "bool"} THEN str(None) ELSE str(val)

\* csv writer: None is written as the empty string, a str as itself, any
\* other value as str(value)
csv_field(val) == IF val.t = "null" THEN <<>> ELSE str(val)

CsvSpecial == {",", Q, "\n", "\r"}

RECURSIVE double_quotes(_)
double_quotes(s) ==
    IF s = <<>> THEN <<>>
    ELSE (IF Head(s) = Q THEN <<Q, Q>> ELSE <<Head(s)>>) \o double_quotes(Tail(s))

\* csv QUOTE_MINIMAL with doublequote
csv_quote(s) ==
    IF \E i \in 1..Len(s) : s[i] \in CsvSpecial
    THEN <<Q>> \o double_quotes(s) \o <<Q>> ELSE s

RECURSIVE join_comma(_)
join_comma(cells) ==
    IF cells = <<>> THEN <<>>
    ELSE IF Len(cells) = 1 THEN cells[1]
    ELSE cells[1] \o <<",">> \o join_comma(Tail(cells))

\* line 96
fieldnames == <<"base_mpd", "merchantName", "merchant_slug", "trackingLink">>

\* line 101: {k: row.get(k, "") for k in fieldnames}, written by writerow
csv_row(row) ==
    join_comma([i \in 1..Len(fieldnames) |->
                   csv_quote(csv_field(IF fieldnames[i] \in DOMAIN row
                                       THEN row[fieldnames[i]] ELSE Str(<<>>)))])

\* lines 100-101
csv_rows(ext) == [i \in 1..Len(ext) |-> csv_row(ext[i])]

outputs_always_json(a) == <<"JSON">> \o (IF ~a.no_csv THEN <<"CSV">> ELSE <<>>)

\* lines 103-107
outputs(a) == (IF ~a.no_json THEN <<"JSON">> ELSE <<>>) \o
              (IF ~a.no_csv THEN <<"CSV">> ELSE <<>>)

\* lines 108-109
summary(ext, a) == [count |-> Len(ext),
                    outputs_str |-> IF outputs(a) # <<>> THEN outputs(a)
                                    ELSE <<"(no files written)">>]

\* ------------------------------------------------------------ input domain
M1 == <<"M", "1">>

FullRecord == Dict([country_filter |-> Str(SG), base_mpd |-> Str(M1),
                    merchantName |-> Str(<<"A", ",", Q>>), merchant_slug |-> Str(<<"a">>),
                    trackingLink |-> Str(<<"x">>), extra |-> Str(<<"z">>)])

SparseRecord == Dict([country_filter |-> Str(SG), base_mpd |-> Str(<<"M", "3">>)])

TypedRecord == Dict([country_filter |-> Str(SG), base_mpd |-> Num(<<"0">>),
                     merchantName |-> None, merchant_slug |-> Str(<<>>),
                     trackingLink |-> Bool(TRUE)])

FalseRecord == Dict([country_filter |-> Str(SG), base_mpd |-> Bool(FALSE),
                     merchantName |-> Str(<<"B", "\n">>)])

Records == {FullRecord, SparseRecord, TypedRecord, FalseRecord,
            Dict([country_filter |-> Str(<<"U", "S">>), base_mpd |-> Str(<<"M", "2">>),
                  merchantName |-> Str(<<"B">>)]),
            Dict([country_filter |-> Str(<<"s", "g">>), base_mpd |-> Str(M1)]),
            Dict([country_filter |-> Str(<<" ", "S", "G">>), base_mpd |-> Str(M1)]),
            Dict([country_filter |-> None, base_mpd |-> Str(M1)]),
            Dict([base_mpd |-> Str(M1), merchantName |-> Str(<<"A">>)]),
            Dict([country_filter |-> Str(SG), base_mpd |-> None, merchantName |-> Str(<<"A">>)]),
            Dict([country_filter |-> Str(SG), merchantName |-> Str(<<"A">>)]),
            Dict([country_filter |-> Str(SG), base_mpd |-> Str(<<"\t", " ">>)]),
            Dict([country_filter |-> Str(SG), base_mpd |-> Str(<<" ", "N", "u", "l", "l", " ">>)])}

Malformed == {Str(SG), Num(<<"1">>), None, Bool(TRUE), List(<<>>)}

Entries == Records \cup Malformed

Lists == UNION {[1..n -> Entries] : n \in 0..MaxItems}

Scalars == {Str(SG), Num(<<"1">>), Bool(TRUE), None}

KeySet == {KEYS[i] : i \in 1..Len(KEYS)}

WrapChoices == {"absent", "scalar", "empty", "one", "two"}

WrapValue(c) == CASE c = "scalar" -> Str(<<"x">>)
                  [] c = "empty" -> List(<<>>)
                  [] c = "one" -> List(<<FullRecord>>)
                  [] OTHER -> List(<<Str(SG), SparseRecord>>)

WrapDict(f, rec) ==
    Dict([k \in {j \in KeySet : f[j] # "absent"} \cup (IF rec THEN {"country_filter", "base_mpd"} ELSE {}) |->
            CASE k = "country_filter" -> Str(SG)
              [] k = "base_mpd" -> Str(M1)
              [] OTHER -> WrapValue(f[k])])

Docs == {List(l) : l \in Lists} \cup {Dict([data |-> List(l)]) : l \in Lists}
        \cup {WrapDict(f, rec) : f \in [KeySet -> WrapChoices], rec \in BOOLEAN}
        \cup Records \cup Scalars

Alphabet == {" ", "n", "N", "u", "U", "l", "L", "x"}

Strings == UNION {[1..n -> Alphabet] : n \in 0..MaxStrLen}

BaseValues == {Str(s) : s \in Strings} \cup {None, Num(<<"0">>), Bool(FALSE), Bool(TRUE)}

NonnullInputs == {Dict([country_filter |-> Str(SG)])} \cup
                 {Dict([country_filter |-> Str(SG), base_mpd |-> v]) : v \in BaseValues}

\* -------------------------------------------------------------------- state
NoFile == [opened |-> FALSE, complete |-> FALSE, indent |-> -1, header |-> <<>>, body |-> <<>>]

NotLoaded == [t |-> "unset", v |-> <<>>]

NoArgs == [no_json |-> FALSE, no_csv |-> FALSE, pretty |-> FALSE]

Init ==
    /\ pc = "parse_args"
    /\ args = NoArgs
    /\ data = NotLoaded
    /\ data_list = <<>>
    /\ extracted = <<>>
    /\ origin = <<>>
    /\ json_file = NoFile
    /\ csv_file = NoFile
    /\ stdout = <<>>
    /\ stderr = <<>>
    /\ exit_code = -1
    /\ value = None
    /\ result = FALSE
    /\ single = <<>>

\* lines 58-65
ParseArgs ==
    /\ pc = "parse_args"
    /\ \E nj \in BOOLEAN, nc \in BOOLEAN, pr \in BOOLEAN :
          args' = [no_json |-> nj, no_csv |-> nc, pretty |-> pr]
    /\ pc' = "load"
    /\ UNCHANGED <<data, data_list, extracted, origin, json_file, csv_file,
                   stdout, stderr, exit_code, value, result, single>>

\* lines 67-68, the file is readable and holds JSON
Load ==
    /\ pc = "load"
    /\ \E d \in Docs : data' = d
    /\ pc' = "normalize"
    /\ UNCHANGED <<args, data_list, extracted, origin, json_file, csv_file,
                   stdout, stderr, exit_code, value, result, single>>

\* lines 67-68, open() or json.load() raises: traceback, exit status 1
LoadFail ==
    /\ pc = "load"
    /\ \E e \in {"FileNotFoundError", "JSONDecodeError"} : stderr' = Append(stderr, e)
    /\ pc' = "aborted"
    /\ exit_code' = 1
    /\ UNCHANGED <<args, data, data_list, extracted, origin, json_file, csv_file,
                   stdout, value, result, single>>

\* lines 70-84
Normalize ==
    /\ pc = "normalize"
    /\ LET n == normalize(data)
       IN  IF n.ok
           THEN /\ data_list' = n.list
                /\ pc' = "extract"
                /\ UNCHANGED <<stderr, exit_code>>
           ELSE /\ stderr' = Append(stderr, "Unsupported JSON structure in input file")
                /\ pc' = "aborted"
                /\ exit_code' = 1
                /\ UNCHANGED data_list
    /\ UNCHANGED <<args, data, extracted, origin, json_file, csv_file,
                   stdout, value, result, single>>

\* line 86; an exception leaving extract() would end the process
Extract ==
    /\ pc = "extract"
    /\ LET r == extract(data_list)
       IN  IF r.raised
           THEN /\ stderr' = Append(stderr, "Traceback")
                /\ pc' = "aborted"
                /\ exit_code' = 1
                /\ UNCHANGED <<extracted, origin>>
           ELSE /\ extracted' = r.out
                /\ origin' = r.origin
                /\ pc' = "write_json"
                /\ UNCHANGED <<stderr, exit_code>>
    /\ UNCHANGED <<args, data, data_list, json_file, csv_file,
                   stdout, value, result, single>>

\* lines 88-93
WriteJson ==
    /\ pc = "write_json"
    /\ json_file' = IF args.no_json THEN json_file
                    ELSE [opened |-> TRUE, complete |-> TRUE, indent |-> json_indent(args),
                          header |-> <<>>,
                          body |-> [i \in 1..Len(extracted) |-> json_object(extracted[i])]]
    /\ pc' = "write_csv"
    /\ UNCHANGED <<args, data, data_list, extracted, origin, csv_file,
                   stdout, stderr, exit_code, value, result, single>>

\* line 89 or 91/93 raises OSError: the file is untouched or left incomplete
WriteJsonFail ==
    /\ pc = "write_json"
    /\ ~args.no_json
    /\ \E o \in BOOLEAN : json_file' = [NoFile EXCEPT !.opened = o]
    /\ stderr' = Append(stderr, "OSError")
    /\ pc' = "aborted"
    /\ exit_code' = 1
    /\ UNCHANGED <<args, data, data_list, extracted, origin, csv_file,
                   stdout, value, result, single>>

\* lines 95-101
WriteCsv ==
    /\ pc = "write_csv"
    /\ csv_file' = IF args.no_csv THEN csv_file
                   ELSE [opened |-> TRUE, complete |-> TRUE, indent |-> -1,
                         header |-> fieldnames, body |-> csv_rows(extracted)]
    /\ pc' = "summary"
    /\ UNCHANGED <<args, data, data_list, extracted, origin, json_file,
                   stdout, stderr, exit_code, value, result, single>>

\* line 97 or 99-101 raises OSError
WriteCsvFail ==
    /\ pc = "write_csv"
    /\ ~args.no_csv
    /\ \E o \in BOOLEAN : csv_file' = [NoFile EXCEPT !.opened = o]
    /\ stderr' = Append(stderr, "OSError")
    /\ pc' = "aborted"
    /\ exit_code' = 1
    /\ UNCHANGED <<args, data, data_list, extracted, origin, json_file,
                   stdout, value, result, single>>

\* lines 103-109, then main returns: exit status 0
PrintSummary ==
    /\ pc = "summary"
    /\ stdout' = Append(stdout, summary(extracted, args))
    /\ pc' = "done"
    /\ exit_code' = 0
    /\ UNCHANGED <<args, data, data_list, extracted, origin, json_file, csv_file,
                   stderr, value, result, single>>

Next == ParseArgs \/ Load \/ LoadFail \/ Normalize \/ Extract \/ WriteJson
        \/ WriteJsonFail \/ WriteCsv \/ WriteCsvFail \/ PrintSummary

Spec == Init /\ [][Next]_vars

\* ---------------------------------------- is_nonnull on bounded base_mpd values
InitNonnull ==
    /\ pc = "nn_input"
    /\ value \in NonnullInputs
    /\ result = FALSE
    /\ single = <<>>
    /\ args = NoArgs
    /\ data = NotLoaded
    /\ data_list = <<>>
    /\ extracted = <<>>
    /\ origin = <<>>
    /\ json_file = NoFile
    /\ csv_file = NoFile
    /\ stdout = <<>>
    /\ stderr = <<>>
    /\ exit_code = -1

\* lines 43-44 applied to one record with country_filter "SG"
ApplyIsNonnull ==
    /\ pc = "nn_input"
    /\ result' = is_nonnull(Get(value, "base_mpd"))
    /\ single' = extract(<<value>>).out
    /\ pc' = "nn_done"
    /\ UNCHANGED <<args, data, data_list, extracted, origin, json_file, csv_file,
                   stdout, stderr, exit_code, value>>

NextNonnull == ApplyIsNonnull

SpecNonnull == InitNonnull /\ [][NextNonnull]_vars

\* ------------------------------------------------ reading the outputs back
RECURSIVE json_unescape(_)
json_unescape(s) ==
    IF s = <<>> THEN <<>>
    ELSE IF Head(s) = BS /\ Len(s) >= 2
         THEN <<(CASE s[2] = "n" -> "\n" [] s[2] = "t" -> "\t" [] OTHER -> s[2])>>
              \o json_unescape(SubSeq(s, 3, Len(s)))
         ELSE <<Head(s)>> \o json_unescape(Tail(s))

\* json.load of one scalar literal
json_parse(lit) ==
    CASE lit = <<"n", "u", "l", "l">> -> None
      [] lit = <<"t", "r", "u", "e">> -> Bool(TRUE)
      [] lit = <<"f", "a", "l", "s", "e">> -> Bool(FALSE)
      [] lit # <<>> /\ Head(lit) = Q -> Str(json_unescape(SubSeq(lit, 2, Len(lit) - 1)))
      [] OTHER -> Num(lit)

\* csv.reader on one record: split on the commas outside quotes, undouble quotes
RECURSIVE csv_parse(_, _, _, _, _)
csv_parse(s, i, cur, inq, acc) ==
    IF i > Len(s) THEN Append(acc, cur)
    ELSE IF inq
         THEN IF s[i] = Q
              THEN IF i < Len(s) /\ s[i + 1] = Q
                   THEN csv_parse(s, i + 2, Append(cur, Q), TRUE, acc)
                   ELSE csv_parse(s, i + 1, cur, FALSE, acc)
              ELSE csv_parse(s, i + 1, Append(cur, s[i]), TRUE, acc)
         ELSE IF s[i] = ","
              THEN csv_parse(s, i + 1, <<>>, FALSE, Append(acc, cur))
              ELSE IF s[i] = Q /\ cur = <<>>
                   THEN csv_parse(s, i + 1, cur, TRUE, acc)
                   ELSE csv_parse(s, i + 1, Append(cur, s[i]), FALSE, acc)

csv_cells(line) == csv_parse(line, 1, <<>>, FALSE, <<>>)

\* ------------------------------------------------------------- properties
FourKeys == {"base_mpd", "merchantName", "merchant_slug", "trackingLink"}

IsMapping(e) == e.t = "dict"

\* country_filter is present and is exactly the two-character string SG
IsSG(e) == /\ IsMapping(e)
           /\ "country_filter" \in DOMAIN e.v
           /\ e.v["country_filter"].t = "str"
           /\ Len(e.v["country_filter"].v) = 2
           /\ e.v["country_filter"].v[1] = "S"
           /\ e.v["country_filter"].v[2] = "G"

IsSpace(c) == c = " " \/ c = "\t" \/ c = "\n"

\* blank, or the word null in any case, with any surrounding whitespace
BlankOrNullWord(s) ==
    \E a \in 0..Len(s) : \E b \in 0..(Len(s) - a) :
        /\ \A i \in 1..a : IsSpace(s[i])
        /\ \A i \in (Len(s) - b + 1)..Len(s) : IsSpace(s[i])
        /\ \/ a + b = Len(s)
           \/ /\ Len(s) - a - b = 4
              /\ s[a + 1] \in {"n", "N"}
              /\ s[a + 2] \in {"u", "U"}
              /\ s[a + 3] \in {"l", "L"}
              /\ s[a + 4] \in {"l", "L"}

NullLike(val) == val.t = "null" \/ (val.t = "str" /\ BlankOrNullWord(val.v))

BaseOf(e) == IF "base_mpd" \in DOMAIN e.v THEN e.v["base_mpd"] ELSE [t |-> "null", v |-> <<>>]

Qualifies(e) == IsSG(e) /\ ~NullLike(BaseOf(e))

\* e's value for key k, null when e has no key k
FieldOf(e, k) == IF k \in DOMAIN e.v THEN e.v[k] ELSE [t |-> "null", v |-> <<>>]

IsProjectionOf(rec, e) ==
    /\ DOMAIN rec = FourKeys
    /\ \A k \in FourKeys : rec[k].t = FieldOf(e, k).t /\ rec[k].v = FieldOf(e, k).v

Extracted == pc \in {"write_json", "write_csv", "summary", "done"}
             \/ (pc = "aborted" /\ stderr = <<"OSError">>)

Range(f) == {f[i] : i \in DOMAIN f}

\* C1: no output record comes from an input element whose country_filter is
\* not exactly "SG" (missing, null, "sg", " SG", ... are all excluded), and
\* every output record has an input element it comes from
C1_OnlySG ==
    Extracted =>
        /\ Len(origin) = Len(extracted)
        /\ \A j \in 1..Len(origin) : origin[j] \in 1..Len(data_list) /\ IsSG(data_list[origin[j]])
        /\ (\A i \in 1..Len(data_list) : ~IsSG(data_list[i])) => extracted = <<>>

C1_Witness ==
    /\ pc = "write_json"
    /\ Len(extracted) = 1
    /\ \E i \in 1..Len(data_list) :
          /\ IsMapping(data_list[i])
          /\ "country_filter" \in DOMAIN data_list[i].v
          /\ data_list[i].v["country_filter"] = Str(<<"s", "g">>)
          /\ i \notin Range(origin)

\* C2: is_nonnull(v) is false exactly for null (or an absent base_mpd) and for
\* strings that are blank or spell null after trimming and lowercasing; a
\* record with such a base_mpd yields no output, every other base_mpd (0 and
\* false included) does not exclude the record
C2_NonNull ==
    pc = "nn_done" =>
        /\ result = ~NullLike(BaseOf(value))
        /\ NullLike(BaseOf(value)) => single = <<>>
        /\ ~NullLike(BaseOf(value)) => Len(single) = 1
        /\ BaseOf(value).t \in {"num", "bool"} => result

C2_Witness ==
    /\ pc = "nn_done"
    /\ BaseOf(value) = Str(<<" ", "N", "u", "L", "l">>)
    /\ ~result
    /\ single = <<>>

\* C3: every input record with country_filter "SG" and non-null base_mpd has
\* an output record with exactly the four keys, each value the source's
\* value, null where the source has no such key
C3_Projection ==
    Extracted =>
        \A i \in 1..Len(data_list) :
            Qualifies(data_list[i]) =>
                \E j \in 1..Len(extracted) :
                    /\ j <= Len(origin)
                    /\ origin[j] = i
                    /\ IsProjectionOf(extracted[j], data_list[i])

C3_Witness ==
    /\ pc = "write_json"
    /\ \E i \in 1..Len(data_list) : data_list[i] = FullRecord
    /\ \E i \in 1..Len(data_list) : data_list[i] = SparseRecord
    /\ Len(extracted) = 2
    /\ extracted[2]["merchantName"].t = "null"

\* the projections of the qualifying elements of items, in input order
QualifyingOf(items) == SelectSeq(items, Qualifies)

MatchesQualifying(out, items) ==
    /\ Len(out) = Len(QualifyingOf(items))
    /\ \A j \in 1..Len(out) : IsProjectionOf(out[j], QualifyingOf(items)[j])

\* C4: the output is the projection of the subsequence of qualifying input
\* records: one output per qualifying record, in input order, never longer
\* than the input
C4_OrderPreserved ==
    Extracted =>
        /\ MatchesQualifying(extracted, data_list)
        /\ Len(origin) = Len(extracted)
        /\ \A j \in 1..Len(origin) : \A k \in 1..Len(origin) : j < k => origin[j] < origin[k]
        /\ Len(extracted) <= Len(data_list)

C4_Witness ==
    /\ pc = "write_json"
    /\ Len(data_list) = 2
    /\ data_list[1] = SparseRecord
    /\ data_list[2] = FullRecord
    /\ Len(extracted) = 2
    /\ extracted[1]["base_mpd"] = Str(<<"M", "3">>)
    /\ extracted[2]["base_mpd"] = Str(M1)

Rank == [data |-> 1, items |-> 2, merchants |-> 3, results |-> 4]

ListKeys(d) == {k \in {"data", "items", "merchants", "results"} :
                   k \in DOMAIN d.v /\ d.v[k].t = "list"}

FirstListKey(d) == CHOOSE k \in ListKeys(d) : \A h \in ListKeys(d) : Rank[k] <= Rank[h]

Normalized == pc = "extract" \/ Extracted

\* C5: a top-level mapping normalizes to the value of the first of data,
\* items, merchants, results that is present and maps to a sequence (empty or
\* not), and to the one-element sequence holding the mapping when there is
\* none; {"data": L} gives the output of the bare array L
C5_Normalization ==
    (Normalized /\ data.t = "dict") =>
        /\ ListKeys(data) = {} => (Len(data_list) = 1 /\ data_list[1] = data)
        /\ ListKeys(data) # {} => data_list = data.v[FirstListKey(data)].v
        /\ (DOMAIN data.v = {"data"} /\ data.v["data"].t = "list") =>
              /\ data_list = data.v["data"].v
              /\ Extracted => MatchesQualifying(extracted, data.v["data"].v)

C5_Witness ==
    /\ pc = "write_json"
    /\ data.t = "dict"
    /\ DOMAIN data.v = {"data", "items", "merchants", "country_filter", "base_mpd"}
    /\ data.v["data"].t = "str"
    /\ data.v["items"] = List(<<>>)
    /\ data.v["merchants"] = List(<<FullRecord>>)
    /\ data_list = <<>>
    /\ extracted = <<>>

HasMalformed(items) == \E i \in 1..Len(items) : ~IsMapping(items[i])

\* C6: an element of the normalized sequence that is not a mapping is skipped:
\* it yields no output, the other elements are processed as if it were absent,
\* and the run does not abort because of it (a run that ends, ends with 0)
C6_MalformedSkipped ==
    HasMalformed(data_list) =>
        /\ pc = "aborted" => stderr = <<"OSError">>
        /\ pc = "done" => exit_code = 0
        /\ Extracted =>
              /\ \A j \in 1..Len(origin) : IsMapping(data_list[origin[j]])
              /\ MatchesQualifying(extracted, SelectSeq(data_list, IsMapping))

C6_Witness ==
    /\ pc = "done"
    /\ exit_code = 0
    /\ Len(data_list) = 2
    /\ data_list[1] = Str(SG)
    /\ data_list[2] = FullRecord
    /\ Len(extracted) = 1
    /\ Len(stdout) = 1

UnsupportedMsg == "Unsupported JSON structure in input file"

\* C7: a top-level value that is neither a sequence nor a mapping ends the run
\* at normalization with a diagnostic and a non-zero exit, before extraction;
\* a top-level sequence or mapping never gets that error
C7_Unsupported ==
    /\ (data.t \in {"str", "num", "bool", "null"} /\ pc \notin {"parse_args", "load", "normalize"}) =>
          /\ pc = "aborted"
          /\ exit_code # 0
          /\ exit_code # -1
          /\ stderr = <<UnsupportedMsg>>
          /\ extracted = <<>> /\ data_list = <<>>
          /\ ~json_file.opened /\ ~csv_file.opened /\ stdout = <<>>
    /\ data.t \in {"list", "dict"} => UnsupportedMsg \notin Range(stderr)

C7_Witness ==
    /\ pc = "aborted"
    /\ data = None
    /\ exit_code = 1
    /\ stderr = <<UnsupportedMsg>>

\* C8: the CSV file is the header base_mpd, merchantName, merchant_slug,
\* trackingLink and one row per extracted record in the order of the JSON
\* array, a null value being written as the empty string
C8_CsvLayout ==
    csv_file.complete =>
        /\ csv_file.header = <<"base_mpd", "merchantName", "merchant_slug", "trackingLink">>
        /\ Len(csv_file.body) = Len(extracted)
        /\ json_file.complete => Len(json_file.body) = Len(csv_file.body)
        /\ \A i \in 1..Len(csv_file.body) :
              /\ Len(csv_cells(csv_file.body[i])) = 4
              /\ \A k \in 1..4 :
                    extracted[i][csv_file.header[k]].t = "null" => csv_cells(csv_file.body[i])[k] = <<>>
              /\ extracted[i]["base_mpd"].t = "str" =>
                    csv_cells(csv_file.body[i])[1] = extracted[i]["base_mpd"].v
              /\ json_file.complete =>
                    /\ json_file.body[i][1].k = "base_mpd"
                    /\ json_parse(json_file.body[i][1].lit).t = extracted[i]["base_mpd"].t
                    /\ json_parse(json_file.body[i][1].lit).v = extracted[i]["base_mpd"].v

C8_Witness ==
    /\ pc = "done"
    /\ csv_file.complete
    /\ json_file.complete
    /\ Len(csv_file.body) = 2
    /\ csv_file.body[1] = <<"M", "3", ",", ",", ",">>
    /\ extracted[2]["merchantName"] = Str(<<"A", ",", Q>>)

\* the string a parsed JSON value is coerced to
StringForm(val) ==
    CASE val.t = "null" -> <<"N", "o", "n", "e">>
      [] val.t = "bool" /\ val.v = <<"true">> -> <<"T", "r", "u", "e">>
      [] val.t = "bool" -> <<"F", "a", "l", "s", "e">>
      [] OTHER -> val.v

BothWritten == json_file.complete /\ csv_file.complete

JsonValue(i, k) == json_parse(json_file.body[i][k].lit)

\* C9 as stated: at every position and field the string form of the JSON
\* value equals the CSV cell, null values included
C9_RoundTripAll ==
    BothWritten =>
        /\ Len(json_file.body) = Len(csv_file.body)
        /\ \A i \in 1..Len(json_file.body) : \A k \in 1..4 :
              StringForm(JsonValue(i, k)) = csv_cells(csv_file.body[i])[k]

\* C9 amended: at every position and field the string form of the JSON value
\* equals the CSV cell when the value is not null, and the CSV cell is the
\* empty string when the value is null
C9_RoundTripNonNull ==
    BothWritten =>
        /\ Len(json_file.body) = Len(csv_file.body)
        /\ \A i \in 1..Len(json_file.body) : \A k \in 1..4 :
              /\ json_file.body[i][k].k = csv_file.header[k]
              /\ JsonValue(i, k).t # "null" =>
                    StringForm(JsonValue(i, k)) = csv_cells(csv_file.body[i])[k]
              /\ JsonValue(i, k).t = "null" => csv_cells(csv_file.body[i])[k] = <<>>

C9_Witness ==
    /\ BothWritten
    /\ Len(json_file.body) = 2
    /\ JsonValue(1, 2).t = "null"
    /\ JsonValue(1, 4) = Bool(TRUE)
    /\ csv_cells(csv_file.body[1]) = <<<<"0">>, <<>>, <<>>, <<"T", "r", "u", "e">>>>
    /\ JsonValue(2, 2) = Str(<<"A", ",", Q>>)

FatalInput == {"FileNotFoundError", "JSONDecodeError", UnsupportedMsg}

ExpectedTargets ==
    CASE ~args.no_json /\ ~args.no_csv -> <<"JSON", "CSV">>
      [] ~args.no_json /\ args.no_csv -> <<"JSON">>
      [] args.no_json /\ ~args.no_csv -> <<"CSV">>
      [] OTHER -> <<"(no files written)">>

OutputsInOrder ==
    /\ json_file.opened =>
          /\ ~args.no_json
          /\ pc \in {"write_csv", "summary", "done", "aborted"}
          /\ normalize(data).ok
          /\ pc # "aborted" => json_file.complete
    /\ csv_file.opened =>
          /\ ~args.no_csv
          /\ pc \in {"summary", "done", "aborted"}
          /\ ~args.no_json => json_file.complete
          /\ pc # "aborted" => csv_file.complete
    /\ (\E e \in FatalInput : e \in Range(stderr)) =>
          ~json_file.opened /\ ~csv_file.opened /\ stdout = <<>> /\ pc = "aborted"
    /\ Len(stdout) <= 1
    /\ stdout # <<>> =>
          /\ pc = "done"
          /\ json_file.complete = ~args.no_json
          /\ csv_file.complete = ~args.no_csv
          /\ stdout[1].count = Len(extracted)
          /\ stdout[1].outputs_str = ExpectedTargets
    /\ pc = "done" => Len(stdout) = 1

StepsInOrder ==
    /\ data' # data => pc = "load"
    /\ data_list' # data_list => pc = "normalize"
    /\ extracted' # extracted => pc = "extract"
    /\ json_file' # json_file => pc = "write_json" /\ ~args.no_json
    /\ csv_file' # csv_file => pc = "write_csv" /\ ~args.no_csv
    /\ stdout' # stdout => pc = "summary"
    /\ <<pc, pc'>> \in {<<"parse_args", "load">>, <<"load", "normalize">>,
                        <<"normalize", "extract">>, <<"extract", "write_json">>,
                        <<"write_json", "write_csv">>, <<"write_csv", "summary">>,
                        <<"summary", "done">>, <<"load", "aborted">>,
                        <<"normalize", "aborted">>, <<"write_json", "aborted">>,
                        <<"write_csv", "aborted">>}

\* C10: the steps run in the order load, normalize, extract, write JSON, write
\* CSV, print summary; an output file is touched only after extraction and
\* only if enabled; a fatal input error leaves both files untouched and prints
\* no summary; the summary is printed at most once, after every enabled output
\* is written, with the record count and exactly the enabled targets
C10_StepOrder == []OutputsInOrder /\ [][StepsInOrder]_vars

C10_Witness ==
    /\ pc = "done"
    /\ args.no_json /\ ~args.no_csv
    /\ ~json_file.opened
    /\ csv_file.complete
    /\ Len(extracted) = 2
    /\ stdout = <<[count |-> 2, outputs_str |-> <<"CSV">>]>>

====
